---------------------------- MODULE Spec2Model ----------------------------
(***************************************************************************)
(* Model of railway_telegram_notifier.py: the subscriber registry and its  *)
(* persistence (load_users, save_users, register_user), the free-text      *)
(* preference toggles (handle_message), the fan-out senders                *)
(* (send_notification, send_eod_report, send_message_to_all,               *)
(* send_photo_to_all) and the scheduling loop (run_check_cycle,            *)
(* generate_and_send_eod_report, run_monitoring, main).                    *)
(*                                                                         *)
(* Three specifications share the variables:                               *)
(*   Spec          the registry and the command surface                    *)
(*   SpecDispatch  the fan-out senders over a given registry               *)
(*   SpecLoop      main, run_monitoring and the scheduling loop            *)
(***************************************************************************)
EXTENDS Integers, Sequences, FiniteSets, TLC

VARIABLES
    users,      \* self.users: the in-memory registry (or whatever json.load gave)
    file,       \* the content of self.users_file on disk
    pc,         \* where the process is
    last,       \* the operation that just ran and what it returned or replied
    outbox,     \* the bot API calls of the fan-out that just ran, in order
    clock,      \* the wall clock: [date, tod]
    save_failures, \* how many save_users calls have failed so far
    toggles,    \* how many messages have changed a preference so far
    retry_count,           \* main's retry_count
    frames,                \* how many calls of run_monitoring are on the stack
    last_eod_report_date,  \* run_monitoring's local of the innermost call, 0 for None
    hist        \* what the scheduling loop has done so far

vars == <<users, file, pc, last, outbox, clock, save_failures, toggles,
          retry_count, frames, last_eod_report_date, hist>>

storeVars == <<users, file, save_failures, toggles>>
loopVars == <<retry_count, frames, last_eod_report_date, hist>>

(***************************************************************************)
(* Text: a Python str is a sequence of one-character strings.              *)
(***************************************************************************)
\* str.lower() on one character (the letters the inputs below use)
LowerChar(c) ==
    CASE c = "P" -> "p" [] c = "R" -> "r" [] c = "I" -> "i" [] c = "C" -> "c"
      [] c = "E" -> "e" [] c = "O" -> "o" [] c = "N" -> "n" [] c = "F" -> "f"
      [] c = "S" -> "s" [] c = "D" -> "d"
      [] OTHER -> c

\* str.lower()
Lower(s) == [i \in 1..Len(s) |-> LowerChar(s[i])]

\* str.startswith(prefix)
StartsWith(s, prefix) ==
    /\ Len(s) >= Len(prefix)
    /\ SubSeq(s, 1, Len(prefix)) = prefix

\* str.split(' '): cut at every single space, empty pieces kept
RECURSIVE SplitFrom(_, _, _)
SplitFrom(s, i, cur) ==
    IF i > Len(s) THEN <<cur>>
    ELSE IF s[i] = " " THEN <<cur>> \o SplitFrom(s, i + 1, <<>>)
    ELSE SplitFrom(s, i + 1, Append(cur, s[i]))

Split(s) == SplitFrom(s, 1, <<>>)

\* str(n) for a small non-negative int: its decimal digits
Digit(d) ==
    CASE d = 0 -> "0" [] d = 1 -> "1" [] d = 2 -> "2" [] d = 3 -> "3"
      [] d = 4 -> "4" [] d = 5 -> "5" [] d = 6 -> "6" [] d = 7 -> "7"
      [] d = 8 -> "8" [] d = 9 -> "9"

RECURSIVE DecStr(_)
DecStr(n) == IF n < 10 THEN <<Digit(n)>> ELSE Append(DecStr(n \div 10), Digit(n % 10))

(***************************************************************************)
(* Values.                                                                 *)
(***************************************************************************)
\* A chat id is a Python int (what Telegram gives) or a Python str holding
\* the same digits (what a caller or an edited file may give).
IntId(n) == [t |-> "int", v |-> n]
StrId(n) == [t |-> "str", v |-> n]

\* str(chat_id): the decimal digits for an int, the string itself for a str
Str(c) == DecStr(c.v)

ChatNumbers == {7, 12}
TelegramIds == {IntId(n) : n \in ChatNumbers}
ChatIds == TelegramIds \cup {StrId(7)}
NoChat == [t |-> "none", v |-> 0]

Usernames == {"goldtrader"}

Flags == {"price_alerts", "signal_alerts", "news_alerts", "eod_reports"}

\* the 'settings' dict of a new record, lines 96-101
DefaultSettings ==
    [price_alerts |-> TRUE, signal_alerts |-> TRUE,
     news_alerts |-> TRUE, eod_reports |-> TRUE]

\* the record register_user appends, lines 92-102
NewUser(chat_id, username, now) ==
    [chat_id |-> chat_id, username |-> username, registered_at |-> now,
     settings |-> DefaultSettings]

\* self.users: ok says the value has the shape {'users': [records]};
\* a value of another shape has no 'users' list to read
EmptyRegistry == [ok |-> TRUE, users |-> <<>>]
WrongShape == [ok |-> FALSE, users |-> <<>>]

(***************************************************************************)
(* The persisted file and load_users / save_users.                         *)
(***************************************************************************)
FileAbsent == [kind |-> "absent", val |-> EmptyRegistry]
\* text that is not JSON (also an empty or truncated file)
FileGarbage == [kind |-> "garbage", val |-> EmptyRegistry]
FileJson(v) == [kind |-> "json", val |-> v]

\* load_users, lines 70-79: the value it returns
load_users(f) ==
    IF f.kind = "absent" THEN EmptyRegistry           \* line 79
    ELSE IF f.kind = "garbage" THEN EmptyRegistry     \* JSONDecodeError, lines 76-78
    ELSE f.val                                        \* json.load, line 75

SaveOutcomes == {"ok", "open_fails", "dump_fails"}

\* save_users returning before it opens the file
save_users_skipped(f, u, outcome) == f

\* save_users, lines 81-87: the file after saving value u. open(..., 'w')
\* truncates; a failure inside json.dump leaves a truncated file; every
\* exception is logged and swallowed.
save_users(f, u, outcome) ==
    IF outcome = "ok" THEN FileJson(u)
    ELSE IF outcome = "open_fails" THEN f
    ELSE FileGarbage

(***************************************************************************)
(* register_user.                                                          *)
(***************************************************************************)
\* [str(user['chat_id']) for user in self.users['users']], line 91
RECURSIVE KnownHandles(_)
KnownHandles(us) ==
    IF us = <<>> THEN <<>>
    ELSE <<Str(Head(us).chat_id)>> \o KnownHandles(Tail(us))

\* x in list
InList(x, l) == \E i \in 1..Len(l) : l[i] = x

\* line 91 without the str() calls: chat_id not in [user['chat_id'] ...]
IsNewHandleRaw(chat_id, us) == ~\E i \in 1..Len(us) : us[i].chat_id = chat_id

\* the test of line 91: str(chat_id) not in [...]
IsNewHandle(chat_id, us) == ~InList(Str(chat_id), KnownHandles(us))

\* register_user, lines 89-105, on a registry of the right shape:
\* [users, ret, saves]
register_user(u, chat_id, username, now) ==
    IF IsNewHandle(chat_id, u.users)
    THEN [users |-> [u EXCEPT !.users = Append(@, NewUser(chat_id, username, now))],
          ret |-> "True", saves |-> 1]
    ELSE [users |-> u, ret |-> "False", saves |-> 0]

(***************************************************************************)
(* handle_message.                                                         *)
(***************************************************************************)
\* the loop of lines 340-344: the index of the first record whose
\* str(chat_id) is the sender's, 0 for None
RECURSIVE FindFrom(_, _, _)
FindFrom(us, i, chat_str) ==
    IF i > Len(us) THEN 0
    ELSE IF Str(us[i].chat_id) = chat_str THEN i
    ELSE FindFrom(us, i + 1, chat_str)

\* lines 340-346 reading the loop variable u where user is meant: after a
\* loop without a match, u is the last record
FindUserOrLast(us, chat_str) ==
    IF FindFrom(us, 1, chat_str) = 0 THEN Len(us) ELSE FindFrom(us, 1, chat_str)

FindUser(us, chat_str) == FindFrom(us, 1, chat_str)

NotRegisteredReply == "You are not registered. Use /start to register."
DontUnderstandReply == "I don't understand that command. Use /help to see available commands."

OnOff(value) == IF value THEN "ON" ELSE "OFF"

TurnedReply(flag, value) ==
    CASE flag = "price_alerts" -> <<"Price alerts turned", OnOff(value)>>
      [] flag = "signal_alerts" -> <<"Signal alerts turned", OnOff(value)>>
      [] flag = "news_alerts" -> <<"News alerts turned", OnOff(value)>>
      [] flag = "eod_reports" -> <<"EOD reports turned", OnOff(value)>>

Reply(s) == <<s, "">>

W_price == <<"p", "r", "i", "c", "e">>
W_signal == <<"s", "i", "g", "n", "a", "l">>
W_news == <<"n", "e", "w", "s">>
W_eod == <<"e", "o", "d">>
W_on == <<"o", "n">>
W_off == <<"o", "f", "f">>
SP == <<" ">>

\* the if/elif chain of lines 351-375: the flag the text addresses, "" for none
FlagOfText(text) ==
    IF StartsWith(text, W_price \o SP) THEN "price_alerts"
    ELSE IF StartsWith(text, W_signal \o SP) THEN "signal_alerts"
    ELSE IF StartsWith(text, W_news \o SP) THEN "news_alerts"
    ELSE IF StartsWith(text, W_eod \o SP) THEN "eod_reports"
    ELSE ""

\* text.split(' ')[1].lower() == 'on', lines 352, 358, 364, 370
ValueOfText(text) == Lower(Split(text)[2]) = W_on

\* the flag set on every record, as if the records shared one settings dict
SetFlagAll(u, i, flag, value) ==
    [u EXCEPT !.users = [j \in 1..Len(@) |-> [@[j] EXCEPT !.settings[flag] = value]]]

\* user['settings'][flag] = value on the record found
SetFlag(u, i, flag, value) ==
    [u EXCEPT !.users[i].settings[flag] = value]

\* handle_message, lines 334-376, on a registry of the right shape:
\* [users, reply, saves]. chat is update.effective_chat.id, raw the text sent.
handle_message(u, chat, raw) ==
    LET chat_id == Str(chat)
        text == Lower(raw)
        i == FindUser(u.users, chat_id)
        flag == FlagOfText(text)
    IN  IF i = 0
        THEN [users |-> u, reply |-> Reply(NotRegisteredReply), saves |-> 0]
        ELSE IF flag # ""
        THEN [users |-> SetFlag(u, i, flag, ValueOfText(text)),
              reply |-> TurnedReply(flag, ValueOfText(text)), saves |-> 1]
        ELSE [users |-> u, reply |-> Reply(DontUnderstandReply), saves |-> 0]

\* the free texts a chat may send
Texts ==
    { W_price \o SP \o W_on,
      W_price \o SP \o W_off,
      <<"P", "R", "I", "C", "E">> \o SP \o <<"O", "F", "F">>,
      W_signal \o SP \o W_off,
      W_news \o SP \o W_off,
      W_eod \o SP \o W_off,
      W_eod \o SP \o <<"O", "n">>,
      W_price \o SP \o SP \o W_on,
      W_eod \o SP \o <<"m", "a", "y", "b", "e">>,
      W_news \o SP,
      W_price \o W_on,
      <<"h", "i">> }

(***************************************************************************)
(* Spec: the registry and the command surface.                             *)
(***************************************************************************)
MaxSaveFailures == 1
MaxToggles == 2

\* the wall clock before the scheduling loop runs
Clock0 == [date |-> 1, tod |-> 1]

\* a registry an earlier run of the program may have persisted
StoredTwo ==
    [ok |-> TRUE,
     users |-> << [NewUser(IntId(12), "None", Clock0)
                      EXCEPT !.settings.price_alerts = FALSE],
                  [NewUser(IntId(7), "goldtrader", Clock0)
                      EXCEPT !.settings.eod_reports = FALSE] >>]

\* what may be on disk when the process starts
InitFiles ==
    {FileAbsent, FileGarbage, FileJson(WrongShape),
     FileJson(EmptyRegistry), FileJson(StoredTwo)}

NoLast ==
    [op |-> "init", chat |-> NoChat, text |-> <<>>, arg |-> "", ret |-> "None",
     reply |-> Reply(""), saves |-> 0, outcome |-> "none", recipients |-> <<>>,
     secs |-> 0]

\* the bounds of the calendar the clock runs through
MaxDate == 2
Dates == 1..MaxDate

NoHist ==
    [loops |-> 0, eod_count |-> [d \in Dates |-> 0], samples |-> [d \in Dates |-> 0],
     prior |-> 0, failed |-> 0, polling |-> 0]

\* the latest date with a digest triggered in a run of the loop that has
\* ended, 0 for none
PriorOf(h) ==
    IF \E d \in Dates : h.eod_count[d] > 0
    THEN CHOOSE d \in Dates :
            h.eod_count[d] > 0 /\ \A e \in Dates : h.eod_count[e] > 0 => e <= d
    ELSE h.prior

\* main has not been entered
LoopIdle ==
    /\ retry_count = 0
    /\ frames = 0
    /\ last_eod_report_date = 0
    /\ hist = NoHist

\* __init__, lines 66-68: self.users = self.load_users()
Init ==
    /\ file \in InitFiles
    /\ users = load_users(file)
    /\ pc = "ready"
    /\ last = NoLast
    /\ outbox = <<>>
    /\ clock = Clock0
    /\ save_failures = 0
    /\ toggles = 0
    /\ LoopIdle

\* the outcomes a save may have here: at most MaxSaveFailures saves fail
OutcomesOf(saves) ==
    IF saves = 0 THEN {"none"}
    ELSE IF save_failures < MaxSaveFailures THEN SaveOutcomes
    ELSE {"ok"}

Persist(u, saves, outcome) ==
    IF saves = 0
    THEN /\ file' = file
         /\ save_failures' = save_failures
    ELSE /\ file' = save_users(file, u, outcome)
         /\ save_failures' = IF outcome = "ok" THEN save_failures ELSE save_failures + 1

\* a call of register_user (start_command, line 124, or any other caller)
RegisterUser(chat_id, username) ==
    /\ pc = "ready"
    /\ IF ~users.ok
       THEN \* self.users['users'] fails: KeyError / TypeError out of line 91
            /\ last' = [NoLast EXCEPT !.op = "register", !.chat = chat_id,
                                      !.ret = "raise"]
            /\ UNCHANGED <<users, file, save_failures>>
       ELSE LET r == register_user(users, chat_id, username, clock)
            IN  \E outcome \in OutcomesOf(r.saves) :
                /\ users' = r.users
                /\ Persist(r.users, r.saves, outcome)
                /\ last' = [NoLast EXCEPT !.op = "register", !.chat = chat_id,
                               !.ret = r.ret, !.saves = r.saves,
                               !.outcome = outcome]
    /\ pc' = "returned"
    /\ UNCHANGED <<outbox, clock, toggles, loopVars>>

\* a free-text message delivered to handle_message; at most MaxToggles of
\* them change a preference
HandleMessage(chat, raw) ==
    /\ pc = "ready"
    /\ IF ~users.ok
       THEN \* self.users['users'] fails: KeyError / TypeError out of line 341
            /\ last' = [NoLast EXCEPT !.op = "message", !.chat = chat,
                                      !.text = raw, !.ret = "raise"]
            /\ UNCHANGED <<users, file, save_failures, toggles>>
       ELSE LET r == handle_message(users, chat, raw)
            IN  \E outcome \in OutcomesOf(r.saves) :
                /\ r.users # users => toggles < MaxToggles
                /\ toggles' = IF r.users # users THEN toggles + 1 ELSE toggles
                /\ users' = r.users
                /\ Persist(r.users, r.saves, outcome)
                /\ last' = [NoLast EXCEPT !.op = "message", !.chat = chat,
                               !.text = raw, !.reply = r.reply, !.saves = r.saves,
                               !.outcome = outcome]
    /\ pc' = "returned"
    /\ UNCHANGED <<outbox, clock, loopVars>>

\* the operation has returned and its caller goes on to the next one
Return ==
    /\ pc = "returned"
    /\ pc' = "ready"
    /\ last' = NoLast
    /\ outbox' = <<>>
    /\ UNCHANGED <<storeVars, clock, loopVars>>

Next ==
    \/ \E c \in ChatIds, n \in Usernames : RegisterUser(c, n)
    \/ \E c \in TelegramIds, t \in Texts : HandleMessage(c, t)
    \/ Return

Spec == Init /\ [][Next]_vars

(***************************************************************************)
(* Properties of the registry and the command surface, checked under Spec. *)
(***************************************************************************)
\* the positions of the records whose handle, as a string, is that of chat
Holders(u, chat) == {i \in 1..Len(u.users) : Str(u.users[i].chat_id) = Str(chat)}

AllFlagsTrue(rec) == \A f \in Flags : rec.settings[f]

C1_RegisterStep ==
    (users.ok /\ last'.op = "register") =>
        IF Holders(users, last'.chat) = {}
        THEN /\ last'.ret = "True"
             /\ Len(users'.users) = Len(users.users) + 1
             /\ SubSeq(users'.users, 1, Len(users.users)) = users.users
             /\ users'.users[Len(users'.users)].chat_id = last'.chat
             /\ AllFlagsTrue(users'.users[Len(users'.users)])
        ELSE /\ last'.ret = "False"
             /\ users' = users
             /\ file' = file

C1_NoDuplicateHandles ==
    \A i, j \in 1..Len(users.users) :
        Str(users.users[i].chat_id) = Str(users.users[j].chat_id) => i = j

\* C1: register_user returns True exactly when no record has the handle (as a
\* string) and then appends one record with the four flags true; otherwise it
\* returns False and changes nothing; so no two records ever share a handle.
C1_IdempotentRegistration == [][C1_RegisterStep]_vars /\ []C1_NoDuplicateHandles

\* C1 witness: after toggles, a handle already held (by a record stored under
\* the int of the same digits) was registered again and False came back
C1_Witness ==
    /\ last.op = "register" /\ last.ret = "False" /\ last.chat = StrId(7)
    /\ toggles > 0
    /\ Len(users.users) = 2

\* the well-formed toggles: category word, one space, on or off
CategoryWord(f) ==
    CASE f = "price_alerts" -> W_price [] f = "signal_alerts" -> W_signal
      [] f = "news_alerts" -> W_news [] f = "eod_reports" -> W_eod

IsToggle(text, f, v) == Lower(text) = CategoryWord(f) \o SP \o (IF v THEN W_on ELSE W_off)

\* the (record, flag) pairs on which two registries of equal length differ
ChangedFlags(u, v) ==
    {p \in (1..Len(u.users)) \X Flags :
        u.users[p[1]].settings[p[2]] # v.users[p[1]].settings[p[2]]}

SameRecordsButFlags(u, v) ==
    /\ Len(u.users) = Len(v.users)
    /\ \A i \in 1..Len(u.users) :
        /\ u.users[i].chat_id = v.users[i].chat_id
        /\ u.users[i].username = v.users[i].username
        /\ u.users[i].registered_at = v.users[i].registered_at

C6_MessageStep ==
    (users.ok /\ last'.op = "message") =>
        /\ users'.ok
        /\ SameRecordsButFlags(users, users')
        /\ Cardinality(ChangedFlags(users, users')) <= 1
        /\ \A p \in ChangedFlags(users, users') : p[1] \in Holders(users, last'.chat)
        /\ \A f \in Flags, v \in BOOLEAN :
              IsToggle(last'.text, f, v) =>
                  /\ \A p \in ChangedFlags(users, users') : p[2] = f
                  /\ \A i \in Holders(users, last'.chat) : users'.users[i].settings[f] = v

\* C6: a toggle from subscriber X on flag F changes X's flag F and nothing
\* else: not X's other flags, not another subscriber's flags, not the set or
\* the order of the records.
C6_PreferenceIsolation == [][C6_MessageStep]_vars

\* C6 witness: with two subscribers, a toggle has just changed a flag
C6_Witness ==
    /\ last.op = "message" /\ last.saves = 1
    /\ Len(users.users) = 2
    /\ toggles > 0
    /\ \E i \in 1..2 : ~AllFlagsTrue(users.users[i])

C7_MessageStep ==
    (users.ok /\ last'.op = "message" /\ Holders(users, last'.chat) = {}) =>
        /\ last'.reply = Reply(NotRegisteredReply)
        /\ last'.saves = 0
        /\ users' = users
        /\ file' = file

\* C7: a free text from a handle that is not in the registry, a well-formed
\* toggle included, is answered 'not registered'; the registry and the file
\* stay as they were and nothing is saved.
C7_UnknownHandle == [][C7_MessageStep]_vars

\* C7 witness: a well-formed toggle from an unknown handle, other subscribers
\* being registered, was answered 'not registered'
C7_Witness ==
    /\ last.op = "message"
    /\ last.reply = Reply(NotRegisteredReply)
    /\ IsToggle(last.text, "price_alerts", FALSE)
    /\ Len(users.users) >= 1

\* the file holds a registry: JSON of the shape {users: [records]}
ValidFile(f) == f.kind = "json" /\ f.val.ok

\* C8: whatever the file holds, load_users gives a registry, the empty one
\* when the file is absent or invalid, and every later registry operation
\* runs on it without error.
C8_LoadAlwaysYieldsRegistry ==
    /\ (last.op = "init" /\ ~ValidFile(file)) => users = EmptyRegistry
    /\ last.ret # "raise"

(***************************************************************************)
(* The fan-out senders.  outbox lists the calls a sender makes, in order:  *)
(* k is the position of the recipient in the list the sender iterates.     *)
(***************************************************************************)
Call(k, user, call, ok) == [k |-> k, to |-> user.chat_id, call |-> call, ok |-> ok]

\* what may happen while one recipient is served: everything works, the text
\* send raises, the chart file does not exist (or cannot be opened), the
\* photo send raises
TextOutcomes == {"ok", "text_fails"}
ChartOutcomes == {"ok", "text_fails", "no_chart", "photo_fails"}
PhotoOutcomes == {"ok", "no_chart", "photo_fails"}

\* the same test with the news branch reading the signal flag
WantedCopyPaste(type, settings) ==
    IF type = "price" /\ settings.price_alerts THEN TRUE
    ELSE IF type = "signal" /\ settings.signal_alerts THEN TRUE
    ELSE IF type = "news" /\ settings.signal_alerts THEN TRUE
    ELSE FALSE

\* the if/elif chain of lines 410-415
Wanted(type, settings) ==
    IF type = "price" /\ settings.price_alerts THEN TRUE
    ELSE IF type = "signal" /\ settings.signal_alerts THEN TRUE
    ELSE IF type = "news" /\ settings.news_alerts THEN TRUE
    ELSE FALSE

\* the loop of lines 406-415
RECURSIVE RecipientsFrom(_, _, _)
RecipientsFrom(us, i, type) ==
    IF i > Len(us) THEN <<>>
    ELSE IF Wanted(type, us[i].settings)
    THEN <<us[i]>> \o RecipientsFrom(us, i + 1, type)
    ELSE RecipientsFrom(us, i + 1, type)

\* lines 451-454 without the test of the flag
EodRecipientsAll(us, i) == SubSeq(us, i, Len(us))

\* the loop of lines 451-454
RECURSIVE EodRecipientsFrom(_, _)
EodRecipientsFrom(us, i) ==
    IF i > Len(us) THEN <<>>
    ELSE IF us[i].settings.eod_reports
    THEN <<us[i]>> \o EodRecipientsFrom(us, i + 1)
    ELSE EodRecipientsFrom(us, i + 1)

\* a call that raised
Failed(c) == ~c.ok /\ c.call \in {"send_message", "send_photo", "open"}

\* a loop over the recipients without the try/except around its body: the
\* first exception ends it
RECURSIVE ForEachUntilError(_)
ForEachUntilError(per) ==
    IF per = <<>> THEN <<>>
    ELSE IF \E j \in 1..Len(Head(per)) : Failed(Head(per)[j])
    THEN Head(per)
    ELSE Head(per) \o ForEachUntilError(Tail(per))

\* for user in ...: try: ... except Exception: logger.error(...)
\* (lines 384-388, 392-397, 420-432, 457-466): the calls of every pass, in order
RECURSIVE ForEachRecipient(_)
ForEachRecipient(per) ==
    IF per = <<>> THEN <<>>
    ELSE Head(per) \o ForEachRecipient(Tail(per))

\* the body of the loop of send_notification, lines 421-432
NotificationCalls(k, user, has_chart, o) ==
    IF o = "text_fails"
    THEN <<Call(k, user, "send_message", FALSE), Call(k, user, "log_error", TRUE)>>
    ELSE <<Call(k, user, "send_message", TRUE)>> \o
         (IF ~has_chart THEN <<>>
          ELSE IF o = "no_chart" THEN <<Call(k, user, "exists", FALSE)>>
          ELSE IF o = "photo_fails"
          THEN <<Call(k, user, "exists", TRUE), Call(k, user, "send_photo", FALSE),
                 Call(k, user, "log_error", TRUE)>>
          ELSE <<Call(k, user, "exists", TRUE), Call(k, user, "send_photo", TRUE)>>)

\* the body of the loop of send_eod_report, lines 458-466
EodCalls(k, user, has_chart, o) ==
    IF o = "text_fails"
    THEN <<Call(k, user, "send_message", FALSE), Call(k, user, "log_error", TRUE)>>
    ELSE <<Call(k, user, "send_message", TRUE)>> \o
         (IF ~has_chart THEN <<>>
          ELSE IF o = "no_chart" THEN <<Call(k, user, "exists", FALSE)>>
          ELSE IF o = "photo_fails"
          THEN <<Call(k, user, "exists", TRUE), Call(k, user, "send_photo", FALSE),
                 Call(k, user, "log_error", TRUE)>>
          ELSE <<Call(k, user, "exists", TRUE), Call(k, user, "send_photo", TRUE)>>)

\* the body of the loop of send_message_to_all, lines 385-388
MessageCalls(k, user, o) ==
    IF o = "text_fails"
    THEN <<Call(k, user, "send_message", FALSE), Call(k, user, "log_error", TRUE)>>
    ELSE <<Call(k, user, "send_message", TRUE)>>

\* the body of the loop of send_photo_to_all, lines 393-397
PhotoCalls(k, user, o) ==
    IF o = "no_chart"
    THEN <<Call(k, user, "open", FALSE), Call(k, user, "log_error", TRUE)>>
    ELSE IF o = "photo_fails"
    THEN <<Call(k, user, "open", TRUE), Call(k, user, "send_photo", FALSE),
           Call(k, user, "log_error", TRUE)>>
    ELSE <<Call(k, user, "open", TRUE), Call(k, user, "send_photo", TRUE)>>

\* a notification: its 'type' and whether data.chart_path is there and not None
NotificationTypes == {"price", "signal", "news", "other"}
Notifications == [type : NotificationTypes, has_chart : BOOLEAN]

\* send_notification, lines 399-432: [recipients, calls], oc the outcome at
\* each recipient
send_notification(u, n, oc) ==
    LET recipients == RecipientsFrom(u.users, 1, n.type)
    IN  [recipients |-> recipients,
         calls |-> ForEachRecipient(
                      [k \in 1..Len(recipients) |->
                          NotificationCalls(k, recipients[k], n.has_chart, oc[k])])]

\* report_data: None, an empty dict, a payload without or with 'chart_path'
ReportData == {"None", "empty", "data", "data_chart"}
\* reporter.generate_eod_report returns a path or None or raises, and
\* notifier.format_eod_report_message may raise
RenderOutcomes == {"path", "None", "raise", "format_raises"}

\* send_eod_report, lines 434-466: [ret, recipients, calls]
send_eod_report(u, report_data, render, oc) ==
    IF report_data = "None"
    THEN [ret |-> "None", recipients |-> <<>>, calls |-> <<>>]       \* lines 436-438
    ELSE IF render \in {"raise", "format_raises"}
    THEN [ret |-> "raise", recipients |-> <<>>, calls |-> <<>>]      \* lines 441, 448
    ELSE IF render = "None"
    THEN [ret |-> "None", recipients |-> <<>>, calls |-> <<>>]       \* lines 443-445
    ELSE LET recipients == EodRecipientsFrom(u.users, 1)
         IN  [ret |-> "None", recipients |-> recipients,
              calls |-> ForEachRecipient(
                          [k \in 1..Len(recipients) |->
                              EodCalls(k, recipients[k], report_data = "data_chart",
                                       oc[k])])]

\* send_message_to_all, lines 382-388
send_message_to_all(u, oc) ==
    [recipients |-> u.users,
     calls |-> ForEachRecipient([k \in 1..Len(u.users) |-> MessageCalls(k, u.users[k], oc[k])])]

\* send_photo_to_all, lines 390-397
send_photo_to_all(u, oc) ==
    [recipients |-> u.users,
     calls |-> ForEachRecipient([k \in 1..Len(u.users) |-> PhotoCalls(k, u.users[k], oc[k])])]

(***************************************************************************)
(* SpecDispatch: the fan-out senders over a registry the program holds.    *)
(***************************************************************************)
AllSettings ==
    [price_alerts : BOOLEAN, signal_alerts : BOOLEAN,
     news_alerts : BOOLEAN, eod_reports : BOOLEAN]

Subscriber(n, st) == [NewUser(IntId(n), "goldtrader", Clock0) EXCEPT !.settings = st]

\* settings tried on registries of three subscribers
SomeSettings ==
    {DefaultSettings,
     [DefaultSettings EXCEPT !.price_alerts = FALSE, !.eod_reports = FALSE],
     [price_alerts |-> FALSE, signal_alerts |-> FALSE,
      news_alerts |-> FALSE, eod_reports |-> TRUE]}

\* registries that registrations and toggles lead to: none, one or two
\* subscribers with any settings in either order, and three subscribers
DispatchRegistries ==
    {EmptyRegistry}
    \cup {[ok |-> TRUE, users |-> <<Subscriber(7, a)>>] : a \in AllSettings}
    \cup {[ok |-> TRUE, users |-> <<Subscriber(7, a), Subscriber(12, b)>>] :
             a \in AllSettings, b \in AllSettings}
    \cup {[ok |-> TRUE, users |-> <<Subscriber(12, a), Subscriber(7, b)>>] :
             a \in AllSettings, b \in AllSettings}
    \cup {[ok |-> TRUE,
           users |-> <<Subscriber(12, a), Subscriber(7, b), Subscriber(30, c)>>] :
             a \in SomeSettings, b \in SomeSettings, c \in SomeSettings}

InitDispatch ==
    /\ users \in DispatchRegistries
    /\ file = FileJson(users)
    /\ pc = "ready"
    /\ last = NoLast
    /\ outbox = <<>>
    /\ clock = Clock0
    /\ save_failures = 0
    /\ toggles = 0
    /\ LoopIdle

\* what a sender leaves behind
Sent(op, arg, ret, recipients, calls) ==
    /\ last' = [NoLast EXCEPT !.op = op, !.arg = arg, !.ret = ret,
                              !.recipients = recipients]
    /\ outbox' = calls
    /\ pc' = "returned"
    /\ UNCHANGED <<storeVars, clock, loopVars>>

\* self.users['users'] on a value of another shape: KeyError / TypeError
SendRaises(op, arg) == Sent(op, arg, "raise", <<>>, <<>>)

SendNotification(n) ==
    /\ pc = "ready"
    /\ IF ~users.ok THEN SendRaises("send_notification", n.type)
       ELSE \E oc \in [1..Len(RecipientsFrom(users.users, 1, n.type)) ->
                          IF n.has_chart THEN ChartOutcomes ELSE TextOutcomes] :
               LET r == send_notification(users, n, oc)
               IN  Sent("send_notification", n.type, "None", r.recipients, r.calls)

SendEodReport(report_data, render) ==
    /\ pc = "ready"
    /\ IF ~users.ok /\ report_data # "None" /\ render = "path"
       THEN SendRaises("send_eod_report", report_data)
       ELSE \E oc \in [1..(IF report_data # "None" /\ render = "path"
                           THEN Len(EodRecipientsFrom(users.users, 1)) ELSE 0) ->
                          IF report_data = "data_chart" THEN ChartOutcomes
                          ELSE TextOutcomes] :
               LET r == send_eod_report(users, report_data, render, oc)
               IN  Sent("send_eod_report", report_data, r.ret, r.recipients, r.calls)

SendMessageToAll ==
    /\ pc = "ready"
    /\ IF ~users.ok THEN SendRaises("send_message_to_all", "")
       ELSE \E oc \in [1..Len(users.users) -> TextOutcomes] :
               LET r == send_message_to_all(users, oc)
               IN  Sent("send_message_to_all", "", "None", r.recipients, r.calls)

SendPhotoToAll ==
    /\ pc = "ready"
    /\ IF ~users.ok THEN SendRaises("send_photo_to_all", "")
       ELSE \E oc \in [1..Len(users.users) -> PhotoOutcomes] :
               LET r == send_photo_to_all(users, oc)
               IN  Sent("send_photo_to_all", "", "None", r.recipients, r.calls)

NextDispatch ==
    \/ \E n \in Notifications : SendNotification(n)
    \/ \E d \in ReportData, r \in RenderOutcomes : SendEodReport(d, r)
    \/ SendMessageToAll
    \/ SendPhotoToAll
    \/ Return

SpecDispatch == InitDispatch /\ [][NextDispatch]_vars

(***************************************************************************)
(* Properties of the fan-out senders, checked under SpecDispatch.          *)
(***************************************************************************)
CategoryFlag(type) ==
    CASE type = "price" -> "price_alerts"
      [] type = "signal" -> "signal_alerts"
      [] type = "news" -> "news_alerts"

\* the positions of the registry whose flag for the category is true
Flagged(type) ==
    {i \in 1..Len(users.users) : users.users[i].settings[CategoryFlag(type)]}

\* seq is the registry's records at the positions idx, in registry order
IsSelection(seq, idx) ==
    /\ Len(seq) = Cardinality(idx)
    /\ \E m \in [1..Len(seq) -> idx] :
          /\ \A a, b \in 1..Len(seq) : a < b => m[a] < m[b]
          /\ \A a \in 1..Len(seq) : seq[a] = users.users[m[a]]

\* C2: for a price, signal or news notification the recipient list of
\* send_notification is the subscribers whose flag for the category is true,
\* in registry order, and nothing is sent to a subscriber whose flag is false.
C2_RoutingCorrect ==
    (last.op = "send_notification" /\ last.arg \in {"price", "signal", "news"}) =>
        /\ IsSelection(last.recipients, Flagged(last.arg))
        /\ \A j \in 1..Len(outbox) :
              outbox[j].call \in {"send_message", "send_photo"} =>
                 \E i \in Flagged(last.arg) : users.users[i].chat_id = outbox[j].to

\* C2 witness: a news notification went to the first and the third of three
\* subscribers, the second having news alerts off
C2_Witness ==
    /\ last.op = "send_notification" /\ last.arg = "news"
    /\ Len(users.users) = 3
    /\ ~users.users[2].settings.news_alerts
    /\ Len(last.recipients) = 2
    /\ \E j \in 1..Len(outbox) : outbox[j].to = users.users[3].chat_id

FanOuts == {"send_notification", "send_eod_report", "send_message_to_all",
            "send_photo_to_all"}

\* a bot or file call of the fan-out that raised
C3_Raised(c) == ~c.ok /\ c.call \in {"send_message", "send_photo", "open"}

\* a call that tries to deliver to recipient k of the list
C3_Attempt(c, k) ==
    /\ c.k = k
    /\ c.to = last.recipients[k].chat_id
    /\ c.call \in {"send_message", "send_photo", "open"}

\* C3: when a send to recipient k of a fan-out fails, the fan-out does not
\* raise and every recipient after k is still tried.
C3_FaultIsolation ==
    last.op \in FanOuts =>
        \A p \in 1..Len(outbox) :
            C3_Raised(outbox[p]) =>
                /\ last.ret # "raise"
                /\ \A k \in (outbox[p].k + 1)..Len(last.recipients) :
                      \E q \in (p + 1)..Len(outbox) : C3_Attempt(outbox[q], k)

\* C3 witness: of three recipients the text send to the first and the photo
\* send to the second raised, and the third got text and photo
C3_Witness ==
    /\ last.op = "send_notification"
    /\ Len(last.recipients) = 3
    /\ \E p, q \in 1..Len(outbox) :
          /\ outbox[p].k = 1 /\ outbox[p].call = "send_message" /\ ~outbox[p].ok
          /\ outbox[q].k = 2 /\ outbox[q].call = "send_photo" /\ ~outbox[q].ok
    /\ outbox[Len(outbox)] = Call(3, last.recipients[3], "send_photo", TRUE)

(***************************************************************************)
(* The clock.  A time of day is <<hour, minute>>; clock.tod is a position  *)
(* in TimesOfDay.                                                          *)
(***************************************************************************)
TimesOfDay == << <<15, 59>>, <<16, 0>>, <<16, 5>> >>

\* strftime('%H:%M'), line 539
Strftime(t) ==
    <<Digit(t[1] \div 10), Digit(t[1] % 10), ":", Digit(t[2] \div 10), Digit(t[2] % 10)>>

\* the code point of a character of a time string
Ord(c) ==
    CASE c = "0" -> 48 [] c = "1" -> 49 [] c = "2" -> 50 [] c = "3" -> 51
      [] c = "4" -> 52 [] c = "5" -> 53 [] c = "6" -> 54 [] c = "7" -> 55
      [] c = "8" -> 56 [] c = "9" -> 57 [] c = ":" -> 58

\* a >= b on Python strs: by code point, a proper prefix being smaller
RECURSIVE StrGE(_, _)
StrGE(a, b) ==
    IF b = <<>> THEN TRUE
    ELSE IF a = <<>> THEN FALSE
    ELSE IF Ord(Head(a)) > Ord(Head(b)) THEN TRUE
    ELSE IF Ord(Head(a)) < Ord(Head(b)) THEN FALSE
    ELSE StrGE(Tail(a), Tail(b))

\* EOD_REPORT_TIME, line 17: '16:00' unless the environment says otherwise
EOD_REPORT_TIME == <<"1", "6", ":", "0", "0">>

\* the test of line 542 without its watermark half
EodDueAnyTime(current_time_str, eod_report_time, last_date, current_date) ==
    StrGE(current_time_str, eod_report_time)

\* the test of line 542 without its time half
EodDueAnyHour(current_time_str, eod_report_time, last_date, current_date) ==
    last_date # current_date

\* the test of line 542
EodDue(current_time_str, eod_report_time, last_date, current_date) ==
    StrGE(current_time_str, eod_report_time) /\ last_date # current_date

(***************************************************************************)
(* run_check_cycle and generate_and_send_eod_report.                       *)
(***************************************************************************)
\* what the bot API does to a recipient while the chats in down are
\* unreachable
OutcomesWhile(recipients, down) ==
    [k \in 1..Len(recipients) |->
        IF recipients[k].chat_id \in down THEN "text_fails" ELSE "ok"]

\* the loop of lines 480-481
RECURSIVE SendAll(_, _, _)
SendAll(u, notifications, down) ==
    IF notifications = <<>> THEN <<>>
    ELSE LET n == Head(notifications)
             recipients == RecipientsFrom(u.users, 1, n.type)
         IN  send_notification(u, n, OutcomesWhile(recipients, down)).calls
                \o SendAll(u, Tail(notifications), down)

\* run_check_cycle with no try/except around the producer call
run_check_cycle_uncaught(u, producer, down) ==
    IF producer.raises THEN [ret |-> "raise", calls |-> <<>>]
    ELSE [ret |-> "None", calls |-> SendAll(u, producer.notifications, down)]

\* run_check_cycle, lines 468-486: [ret, calls]. producer is what
\* self.notifier.run_check_cycle() does: it raises or returns notifications.
run_check_cycle(u, producer, down) ==
    IF producer.raises THEN [ret |-> "None", calls |-> <<>>]          \* lines 485-486
    ELSE [ret |-> "None", calls |-> SendAll(u, producer.notifications, down)]

\* generate_and_send_eod_report, lines 488-505: [recipients, calls]. payload
\* is what self.notifier.generate_eod_report() does: "raise" or a ReportData.
generate_and_send_eod_report(u, payload, render, down) ==
    IF payload = "raise"
    THEN [recipients |-> <<>>, calls |-> <<>>]                        \* lines 504-505
    ELSE IF payload \in {"None", "empty"}
    THEN [recipients |-> <<>>, calls |-> <<>>]                        \* lines 501-502
    ELSE LET r == send_eod_report(u, payload, render,
                     OutcomesWhile(EodRecipientsFrom(u.users, 1), down))
         IN  [recipients |-> r.recipients, calls |-> r.calls]         \* line 500

(***************************************************************************)
(* SpecLoop: main, run_monitoring and the scheduling loop.                 *)
(***************************************************************************)
\* max_retries, line 572
max_retries == 5
\* the cooldown of line 556 and the factor of line 583, in seconds
COOLDOWN == 60
\* how many times, in a run of the model, the scheduling loop is started or
\* fails to start
MaxLoops == 7

\* the registry the loop runs over: a subscriber with price alerts off, one
\* with every flag on and one with eod_reports off
LoopRegistries ==
    {[ok |-> TRUE,
      users |-> <<Subscriber(12, [DefaultSettings EXCEPT !.price_alerts = FALSE]),
                  Subscriber(7, DefaultSettings),
                  Subscriber(30, [DefaultSettings EXCEPT !.eod_reports = FALSE])>>]}

PriceWithChart == [type |-> "price", has_chart |-> TRUE]
NewsNoChart == [type |-> "news", has_chart |-> FALSE]

\* what self.notifier.run_check_cycle() may do: raise, or return no, one or
\* two notifications
ProducerOutcomes ==
    {[raises |-> TRUE, notifications |-> <<>>]}
    \cup {[raises |-> FALSE, notifications |-> l] :
             l \in {<<>>, <<PriceWithChart>>, <<NewsNoChart>>,
                    <<NewsNoChart, PriceWithChart>>}}

\* the chats that may be unreachable during a cycle or a digest
DownSets == {{}, {IntId(7)}}
\* the same during a digest, where every subscriber to it may be unreachable
DigestDownSets == DownSets \cup {{IntId(12), IntId(7)}}

InitLoop ==
    /\ users \in LoopRegistries
    /\ file = FileJson(users)
    /\ pc = "main"
    /\ last = NoLast
    /\ outbox = <<>>
    /\ clock = Clock0
    /\ save_failures = 0
    /\ toggles = 0
    /\ LoopIdle

Did(op, arg, outcome, recipients, secs) ==
    last' = [NoLast EXCEPT !.op = op, !.arg = arg, !.outcome = outcome,
                           !.recipients = recipients, !.secs = secs]

\* main, lines 575-577: the loop test and the call of run_monitoring
MainCall ==
    /\ pc = "main"
    /\ retry_count < max_retries
    /\ pc' = "start_polling"
    /\ frames' = 1
    /\ Did("main_call", "", "none", <<>>, 0)
    /\ outbox' = <<>>
    /\ UNCHANGED <<storeVars, clock, retry_count, last_eod_report_date, hist>>

\* run_monitoring without line 530, the watermark outliving the call
StartPollingKeepingWatermark ==
    /\ pc = "start_polling"
    /\ hist.loops + retry_count < MaxLoops
    /\ pc' = "check_cycle"
    /\ last_eod_report_date' = last_eod_report_date
    /\ hist' = [NoHist EXCEPT !.loops = hist.loops + 1, !.prior = PriorOf(hist),
                              !.polling = hist.polling + 1]
    /\ Did("start_polling", "", "none", <<>>, 0)
    /\ outbox' = <<>>
    /\ UNCHANGED <<storeVars, clock, retry_count, frames>>

\* run_monitoring, lines 524-530: polling starts, the watermark is None and
\* the while loop is entered
StartPolling ==
    /\ pc = "start_polling"
    /\ hist.loops + retry_count < MaxLoops
    /\ pc' = "check_cycle"
    /\ last_eod_report_date' = 0
    /\ hist' = [NoHist EXCEPT !.loops = hist.loops + 1, !.prior = PriorOf(hist),
                              !.polling = hist.polling + 1]
    /\ Did("start_polling", "", "none", <<>>, 0)
    /\ outbox' = <<>>
    /\ UNCHANGED <<storeVars, clock, retry_count, frames>>

\* line 528 raises: the call ends before its try statement is entered
StartPollingRaises ==
    /\ pc = "start_polling"
    /\ hist.loops + retry_count < MaxLoops
    /\ frames' = frames - 1
    /\ pc' = IF frames = 1 THEN "main_except" ELSE "unwind"
    /\ Did("start_polling", "raise", "none", <<>>, 0)
    /\ outbox' = <<>>
    /\ UNCHANGED <<storeVars, clock, retry_count, last_eod_report_date, hist>>

\* line 535: one call of run_check_cycle
RunCheckCycle(producer, down) ==
    /\ pc = "check_cycle"
    /\ LET r == run_check_cycle(users, producer, down)
       IN  /\ outbox' = r.calls
           /\ pc' = IF r.ret = "raise" THEN "cooldown" ELSE "eod_check"
    /\ Did("run_check_cycle", IF producer.raises THEN "raise" ELSE "returned",
           "none", <<>>, 0)
    /\ UNCHANGED <<storeVars, clock, loopVars>>

\* what the report producer, the renderer and the transport may do in one
\* digest: the renderer and the transport matter only when they are reached
DigestInputs ==
    {<<p, "path", {}>> : p \in {"raise", "None", "empty"}}
    \cup {<<p, r, {}>> : p \in {"data", "data_chart"}, r \in RenderOutcomes \ {"path"}}
    \cup {<<p, "path", d>> : p \in {"data", "data_chart"}, d \in DigestDownSets}

\* the ghost record of a sample of the clock
Sampled(h, date, at_or_after, triggered) ==
    [h EXCEPT !.samples[date] = IF at_or_after /\ @ < 2 THEN @ + 1 ELSE @,
              !.eod_count[date] = IF triggered THEN @ + 1 ELSE @]

\* the digest reached someone: a bot.send_message of line 459 returned
Reached(calls) ==
    \E p \in 1..Len(calls) : calls[p].call = "send_message" /\ calls[p].ok

\* lines 542-544 with the watermark set only when the digest reached someone
EodCheckRetrying(payload, render, down) ==
    /\ pc = "eod_check"
    /\ LET current_time_str == Strftime(TimesOfDay[clock.tod])
           current_date == clock.date
           at_or_after == StrGE(current_time_str, EOD_REPORT_TIME)
       IN  IF EodDue(current_time_str, EOD_REPORT_TIME, last_eod_report_date,
                     current_date)
           THEN LET r == generate_and_send_eod_report(users, payload, render, down)
                IN  /\ outbox' = r.calls
                    /\ last_eod_report_date' =
                          IF Reached(r.calls) THEN current_date
                          ELSE last_eod_report_date
                    /\ Did("eod_report", payload, render, r.recipients, 0)
                    /\ hist' = [Sampled(hist, current_date, at_or_after, TRUE)
                                  EXCEPT !.failed = IF Reached(r.calls) THEN @
                                                    ELSE current_date]
           ELSE /\ <<payload, render, down>> = <<"None", "path", {}>>
                /\ outbox' = <<>>
                /\ last_eod_report_date' = last_eod_report_date
                /\ Did("eod_skip", "", "none", <<>>, 0)
                /\ hist' = Sampled(hist, current_date, at_or_after, FALSE)
    /\ pc' = "sleep"
    /\ UNCHANGED <<storeVars, clock, retry_count, frames>>

\* lines 538-544: the clock is sampled; when the digest is due it is
\* generated and sent and the watermark is set
EodCheck(payload, render, down) ==
    /\ pc = "eod_check"
    /\ LET current_time_str == Strftime(TimesOfDay[clock.tod])
           current_date == clock.date
           at_or_after == StrGE(current_time_str, EOD_REPORT_TIME)
       IN  IF EodDue(current_time_str, EOD_REPORT_TIME, last_eod_report_date,
                     current_date)
           THEN LET r == generate_and_send_eod_report(users, payload, render, down)
                IN  /\ outbox' = r.calls
                    /\ last_eod_report_date' = current_date
                    /\ Did("eod_report", payload, render, r.recipients, 0)
                    /\ hist' = [Sampled(hist, current_date, at_or_after, TRUE)
                                  EXCEPT !.failed = IF Reached(r.calls) THEN @
                                                    ELSE current_date]
           ELSE /\ <<payload, render, down>> = <<"None", "path", {}>>
                /\ outbox' = <<>>
                /\ last_eod_report_date' = last_eod_report_date
                /\ Did("eod_skip", "", "none", <<>>, 0)
                /\ hist' = Sampled(hist, current_date, at_or_after, FALSE)
    /\ pc' = "sleep"
    /\ UNCHANGED <<storeVars, clock, retry_count, frames>>

\* lines 547-548: time.sleep(self.check_interval)
Sleep ==
    /\ pc = "sleep"
    /\ pc' = "check_cycle"
    /\ Did("sleep", "", "none", <<>>, 0)
    /\ outbox' = <<>>
    /\ UNCHANGED <<storeVars, clock, loopVars>>

\* an exception that nothing inside the loop body catches (line 548 with a
\* negative interval, lines 538-542), caught at line 552
LoopFault ==
    /\ pc \in {"eod_check", "sleep"}
    /\ pc' = "cooldown"
    /\ Did("loop_fault", "", "none", <<>>, 0)
    /\ outbox' = <<>>
    /\ UNCHANGED <<storeVars, clock, loopVars>>

\* lines 555-557: the cooldown and the call of run_monitoring from the handler
Restart ==
    /\ pc = "cooldown"
    /\ hist.loops + retry_count < MaxLoops
    /\ pc' = "start_polling"
    /\ frames' = frames + 1
    /\ Did("restart", "", "none", <<>>, COOLDOWN)
    /\ outbox' = <<>>
    /\ UNCHANGED <<storeVars, clock, retry_count, last_eod_report_date, hist>>

\* KeyboardInterrupt in the loop body, caught at line 550
Interrupt ==
    /\ pc \in {"check_cycle", "eod_check", "sleep"}
    /\ pc' = "finally"
    /\ Did("interrupt", "", "none", <<>>, 0)
    /\ outbox' = <<>>
    /\ UNCHANGED <<storeVars, clock, loopVars>>

\* KeyboardInterrupt while run_check_cycle is sending a notification (in a
\* bot call of lines 422-430): no except Exception clause catches it (lines
\* 431, 485), so the sends end after the first cut calls and the handler of
\* line 550 is reached.  The cycles taken here produce one notification and
\* every chat is reachable.
RunCheckCycleInterrupted(producer) ==
    /\ pc = "check_cycle"
    /\ ~producer.raises /\ Len(producer.notifications) = 1
    /\ LET n == producer.notifications[1]
           recipients == RecipientsFrom(users.users, 1, n.type)
           calls == run_check_cycle(users, producer, {}).calls
       IN  \E cut \in 0..(Len(calls) - 1) :
               /\ outbox' = SubSeq(calls, 1, cut)
               /\ Did("run_check_cycle", "interrupt", "none", recipients, 0)
    /\ pc' = "finally"
    /\ UNCHANGED <<storeVars, clock, loopVars>>

\* KeyboardInterrupt in the cooldown of line 556, inside the handler of line
\* 552: the except KeyboardInterrupt clause of the same try statement does
\* not apply to it, so it leaves the call after the finally clause
InterruptCooldown ==
    /\ pc = "cooldown"
    /\ pc' = "unwind_interrupt"
    /\ Did("interrupt", "cooldown", "none", <<>>, 0)
    /\ outbox' = <<>>
    /\ UNCHANGED <<storeVars, clock, loopVars>>

\* lines 558-559 while the KeyboardInterrupt goes up: stop_polling, then
\* the caller; main's except Exception (line 579) does not catch it and the
\* process ends with the KeyboardInterrupt
UnwindInterrupt ==
    /\ pc = "unwind_interrupt"
    /\ frames' = frames - 1
    /\ pc' = IF frames = 1 THEN "exit_interrupt" ELSE "unwind_interrupt"
    /\ Did("stop_polling", "interrupt", "none", <<>>, 0)
    /\ hist' = [hist EXCEPT !.polling = @ - 1]
    /\ outbox' = <<>>
    /\ UNCHANGED <<storeVars, clock, retry_count, last_eod_report_date>>

\* lines 558-559 on the way out of a call that returns: stop_polling, then
\* the caller, which is the handler of an outer call (line 557) or main
\* (line 578, break)
StopPolling ==
    /\ pc = "finally"
    /\ frames' = frames - 1
    /\ pc' = IF frames = 1 THEN "exit_0" ELSE "finally"
    /\ Did("stop_polling", "", "none", <<>>, 0)
    /\ hist' = [hist EXCEPT !.polling = @ - 1]
    /\ outbox' = <<>>
    /\ UNCHANGED <<storeVars, clock, retry_count, last_eod_report_date>>

\* lines 558-559 on the way out of a call whose handler raised (line 557):
\* stop_polling, then the exception goes on to the caller
Unwind ==
    /\ pc = "unwind"
    /\ frames' = frames - 1
    /\ pc' = IF frames = 1 THEN "main_except" ELSE "unwind"
    /\ Did("stop_polling", "raise", "none", <<>>, 0)
    /\ hist' = [hist EXCEPT !.polling = @ - 1]
    /\ outbox' = <<>>
    /\ UNCHANGED <<storeVars, clock, retry_count, last_eod_report_date>>

\* main, lines 579-588, sleeping the same 60 seconds after every failure
MainCatchFlat ==
    /\ pc = "main_except"
    /\ retry_count' = retry_count + 1
    /\ IF retry_count + 1 < max_retries
       THEN /\ pc' = "main"
            /\ Did("main_retry", "", "none", <<>>, COOLDOWN)
       ELSE /\ pc' = "exit_1"
            /\ Did("main_exit", "", "none", <<>>, 0)
    /\ outbox' = <<>>
    /\ UNCHANGED <<storeVars, clock, frames, last_eod_report_date, hist>>

\* main, lines 579-588
MainCatch ==
    /\ pc = "main_except"
    /\ retry_count' = retry_count + 1
    /\ IF retry_count + 1 < max_retries
       THEN /\ pc' = "main"
            /\ Did("main_retry", "", "none", <<>>, COOLDOWN * (retry_count + 1))
       ELSE /\ pc' = "exit_1"
            /\ Did("main_exit", "", "none", <<>>, 0)
    /\ outbox' = <<>>
    /\ UNCHANGED <<storeVars, clock, frames, last_eod_report_date, hist>>

\* time passes: before main calls run_monitoring and in the sleeps of lines
\* 548, 556 and 585; the time a sleep took shows when the next cycle begins
\* (what passes during a cycle is counted with the sleep before it)
Tick ==
    /\ pc \in {"main", "check_cycle"}
    /\ IF clock.tod < Len(TimesOfDay)
       THEN /\ clock' = [clock EXCEPT !.tod = @ + 1]
            /\ hist' = hist
       ELSE /\ clock.date < MaxDate
            /\ clock' = [date |-> clock.date + 1, tod |-> 1]
            /\ hist' = [hist EXCEPT !.failed = 0]
    /\ UNCHANGED <<storeVars, pc, last, outbox, retry_count, frames,
                   last_eod_report_date>>

NextLoop ==
    \/ MainCall
    \/ StartPolling
    \/ StartPollingRaises
    \/ \E p \in ProducerOutcomes, d \in DownSets : RunCheckCycle(p, d)
    \/ \E i \in DigestInputs : EodCheck(i[1], i[2], i[3])
    \/ Sleep
    \/ LoopFault
    \/ Restart
    \/ Interrupt
    \/ \E p \in ProducerOutcomes : RunCheckCycleInterrupted(p)
    \/ InterruptCooldown
    \/ UnwindInterrupt
    \/ StopPolling
    \/ Unwind
    \/ MainCatch
    \/ Tick

SpecLoop == InitLoop /\ [][NextLoop]_vars

(***************************************************************************)
(* Properties of the scheduling loop, checked under SpecLoop.  hist counts *)
(* per date, since the loop was last started, the samples of the clock at  *)
(* or after the threshold (up to 2) and the digests triggered, and in     *)
(* prior the latest date with a digest triggered in an earlier run, and in *)
(* failed the date of the clock when its digest, triggered in this run,    *)
(* reached no one (0 otherwise).  polling counts, over the whole run of    *)
(* the program, the calls of start_polling that returned less the calls    *)
(* of stop_polling.                                                        *)
(***************************************************************************)
\* C4: in one run of the loop the digest is triggered once on every date that
\* has a sample at or after the threshold, however many such samples the
\* date has, and not at all on the other dates.
C4_DigestOncePerDate ==
    \A d \in Dates : hist.eod_count[d] = IF hist.samples[d] > 0 THEN 1 ELSE 0

\* C4 witness: two samples at or after the threshold on the first date, one
\* digest for it, and a digest for the next date
C4_Witness ==
    /\ hist.samples[1] = 2
    /\ hist.eod_count[1] = 1
    /\ hist.eod_count[2] = 1

\* the chats a text was sent to (or tried)
TextTargets == {outbox[j].to : j \in {i \in 1..Len(outbox) : outbox[i].call = "send_message"}}

EodSubscribers ==
    {users.users[i].chat_id : i \in {j \in 1..Len(users.users) : users.users[j].settings.eod_reports}}

C9_BoundedRestarts == hist.loops - 1 <= max_retries

C10_CycleStep ==
    (pc = "check_cycle" /\ last'.op = "run_check_cycle" /\ last'.arg = "raise") =>
        /\ outbox' = <<>>
        /\ pc' = "eod_check"
        /\ frames' = frames
        /\ retry_count' = retry_count
        /\ hist' = hist

\* C10: a check cycle whose producer raises sends nothing and returns; the
\* loop goes on to the end-of-day check, neither left nor restarted.
C10_ProducerFailureNonFatal == [][C10_CycleStep]_vars

\* C10 witness: the producer raised in a cycle after the first digest of the
\* run and the loop is at its end-of-day check
C10_Witness ==
    /\ last.op = "run_check_cycle" /\ last.arg = "raise"
    /\ pc = "eod_check"
    /\ \E d \in Dates : hist.eod_count[d] = 1

(***************************************************************************)
(* SpecThreads: the handlers and the fan-out on their two threads.         *)
(* updater.start_polling() (line 509) returns and the scheduling loop goes *)
(* on in the calling thread, while the dispatcher runs the handlers, one   *)
(* at a time, in its own.  Here pc gives, for each thread, the statement   *)
(* it is at and its locals; a step is one statement of one thread.  The    *)
(* program takes no lock anywhere.                                         *)
(***************************************************************************)
HandlerIdle ==
    [at |-> "idle", chat |-> NoChat, username |-> "", idx |-> 0, flag |-> "",
     value |-> FALSE]

FanOutIdle == [at |-> "idle", type |-> "", i |-> 0, recipients |-> <<>>, k |-> 0]

ThreadsIdle == [handler |-> HandlerIdle, loop |-> FanOutIdle]

InitThreads ==
    /\ file \in {FileAbsent, FileJson(StoredTwo)}
    /\ users = load_users(file)
    /\ pc = ThreadsIdle
    /\ last = NoLast
    /\ outbox = <<>>
    /\ clock = Clock0
    /\ save_failures = 0
    /\ toggles = 0
    /\ LoopIdle

\* register_user, line 91: the membership test; line 105 when it fails
RegisterCheck(chat_id, username) ==
    /\ pc.handler.at = "idle"
    /\ IF IsNewHandle(chat_id, users.users)
       THEN /\ pc' = [pc EXCEPT !.handler = [HandlerIdle EXCEPT
                         !.at = "register_append", !.chat = chat_id,
                         !.username = username]]
       ELSE pc' = pc
    /\ UNCHANGED <<storeVars, last, outbox, clock, loopVars>>

\* register_user, lines 92-103: the append
RegisterAppend ==
    /\ pc.handler.at = "register_append"
    /\ users' = [users EXCEPT !.users =
                    Append(@, NewUser(pc.handler.chat, pc.handler.username, clock))]
    /\ pc' = [pc EXCEPT !.handler.at = "register_save"]
    /\ UNCHANGED <<file, save_failures, toggles, last, outbox, clock, loopVars>>

\* handle_message, lines 336-351 and 375-376: find the sender, read the text
MessageFind(chat, raw) ==
    /\ pc.handler.at = "idle"
    /\ LET text == Lower(raw)
           i == FindUser(users.users, Str(chat))
           flag == FlagOfText(text)
       IN  IF i = 0 \/ flag = ""
           THEN pc' = pc
           ELSE /\ toggles < MaxToggles
                /\ pc' = [pc EXCEPT !.handler = [HandlerIdle EXCEPT
                             !.at = "message_set", !.chat = chat, !.idx = i,
                             !.flag = flag, !.value = ValueOfText(text)]]
    /\ UNCHANGED <<storeVars, last, outbox, clock, loopVars>>

\* handle_message, lines 353, 359, 365, 371: user['settings'][flag] = value
MessageSet ==
    /\ pc.handler.at = "message_set"
    /\ users' = SetFlag(users, pc.handler.idx, pc.handler.flag, pc.handler.value)
    /\ toggles' = toggles + 1
    /\ pc' = [pc EXCEPT !.handler.at = "message_save"]
    /\ UNCHANGED <<file, save_failures, last, outbox, clock, loopVars>>

\* self.save_users() of lines 104, 354, 360, 366, 372, and the return or reply
SaveUsers ==
    /\ pc.handler.at \in {"register_save", "message_save"}
    /\ \E outcome \in OutcomesOf(1) : Persist(users, 1, outcome)
    /\ pc' = [pc EXCEPT !.handler = HandlerIdle]
    /\ UNCHANGED <<users, toggles, last, outbox, clock, loopVars>>

\* the free texts sent while a fan-out may be running
ThreadTexts ==
    { W_price \o SP \o W_off,
      W_eod \o SP \o <<"O", "n">>,
      W_news \o SP,
      <<"h", "i">> }

\* the categories of the fan-outs of the loop's thread: send_notification
\* of a type, send_eod_report
FanOutTypes == {"price", "news", "eod"}

\* lines 401-406 and 451: the fan-out begins with an empty recipient list
BeginFanOut(type) ==
    /\ pc.loop.at = "idle"
    /\ pc' = [pc EXCEPT !.loop = [FanOutIdle EXCEPT !.at = "select", !.type = type,
                                                    !.i = 1]]
    /\ outbox' = <<>>
    /\ UNCHANGED <<storeVars, last, clock, loopVars>>

\* one pass of for user in self.users['users'], lines 407-415 and 452-454,
\* over the list as it is now
SelectNext ==
    /\ pc.loop.at = "select"
    /\ IF pc.loop.i > Len(users.users)
       THEN pc' = [pc EXCEPT !.loop.at = "deliver", !.loop.k = 1]
       ELSE LET user == users.users[pc.loop.i]
                wanted == IF pc.loop.type = "eod" THEN user.settings.eod_reports
                          ELSE Wanted(pc.loop.type, user.settings)
            IN  pc' = [pc EXCEPT !.loop.i = @ + 1,
                                 !.loop.recipients =
                                     IF wanted THEN Append(@, user) ELSE @]
    /\ UNCHANGED <<storeVars, last, outbox, clock, loopVars>>

\* one pass of for user in recipients, lines 420-432 and 457-466
DeliverNext(o) ==
    /\ pc.loop.at = "deliver"
    /\ IF pc.loop.k > Len(pc.loop.recipients)
       THEN /\ o = "ok"
            /\ pc' = [pc EXCEPT !.loop = FanOutIdle]
            /\ outbox' = outbox
       ELSE /\ pc' = [pc EXCEPT !.loop.k = @ + 1]
            /\ outbox' = outbox \o
                  NotificationCalls(pc.loop.k, pc.loop.recipients[pc.loop.k], FALSE, o)
    /\ UNCHANGED <<storeVars, last, clock, loopVars>>

NextThreads ==
    \/ \E c \in ChatIds, n \in Usernames : RegisterCheck(c, n)
    \/ RegisterAppend
    \/ \E c \in TelegramIds, t \in ThreadTexts : MessageFind(c, t)
    \/ MessageSet
    \/ SaveUsers
    \/ \E type \in FanOutTypes : BeginFanOut(type)
    \/ SelectNext
    \/ \E o \in TextOutcomes : DeliverNext(o)

SpecThreads == InitThreads /\ [][NextThreads]_vars

(***************************************************************************)
(* Properties of the two threads, checked under SpecThreads.               *)
(***************************************************************************)
\* the handler has changed the registry in memory and has not yet finished
\* saving it
MutationInProgress == pc.handler.at \in {"register_save", "message_save"}

\* the fan-out is between the start of its recipient computation and the end
\* of its delivery loop
RoutingInProgress == pc.loop.at \in {"select", "deliver"}

\* C11: a registry mutation and a fan-out routing read are never in progress
\* at the same time.
C11_RegistryMutualExclusion == ~(MutationInProgress /\ RoutingInProgress)

(***************************************************************************)
(* Further properties of the command surface, checked under Spec.          *)
(***************************************************************************)
\* the text is a category word, one space, on or off (in any case)
WellFormedToggle(text) == \E f \in Flags, v \in BOOLEAN : IsToggle(text, f, v)

C12_MessageStep ==
    (users.ok /\ last'.op = "message" /\ Holders(users, last'.chat) # {}
        /\ ~WellFormedToggle(last'.text)) =>
        /\ last'.reply = Reply(DontUnderstandReply)
        /\ last'.saves = 0
        /\ users' = users
        /\ file' = file

\* C12: a free text from a registered sender that is not a category word
\* followed by on or off is answered 'didn't understand' and changes neither
\* the preferences nor the file.
C12_FreeTextRejection == [][C12_MessageStep]_vars


\* the handler changed, or set again, a record of the registry
C13_Mutates ==
    \/ last'.op = "register" /\ last'.ret = "True"
    \/ last'.op = "message"
         /\ last'.reply \notin {Reply(NotRegisteredReply), Reply(DontUnderstandReply)}

C13_Step ==
    (users.ok /\ last'.op \in {"register", "message"}) =>
        \* a mutation is followed by one write of the registry, a write by none
        /\ C13_Mutates <=> last'.saves = 1
        /\ last'.saves = 0 => users' = users /\ file' = file
        \* the write that succeeds leaves the whole registry in the file
        /\ (last'.saves = 1 /\ last'.outcome = "ok") => file' = FileJson(users')
        \* the write that fails changes neither the result nor the registry
        \* in memory
        /\ (last'.saves = 1 /\ last'.outcome # "ok") =>
              /\ last'.op = "register" =>
                    /\ last'.ret = "True"
                    /\ Len(users'.users) = Len(users.users) + 1
                    /\ users'.users[Len(users'.users)].chat_id = last'.chat
              /\ last'.op = "message" =>
                    \E f \in Flags, v \in BOOLEAN :
                        /\ last'.reply = TurnedReply(f, v)
                        /\ \A i \in Holders(users, last'.chat) :
                              users'.users[i].settings[f] = v

\* after the latest write succeeded the file holds the registry in memory
C13_Reconciled ==
    (last.saves = 1 /\ last.outcome = "ok") => file = FileJson(users)

\* C13: every registration and toggle is followed by a write of the whole
\* registry before it returns; a failed write is swallowed, the mutation
\* stays and the result is that of a success; and when the latest write
\* succeeded the file equals the registry in memory, whatever failed before.
C13_PersistenceTracksMemory == [][C13_Step]_vars /\ []C13_Reconciled

\* C13 witness: a write failed earlier, a toggle has just been written and
\* the file holds the registry in memory
C13_Witness ==
    /\ save_failures = 1
    /\ last.op = "message" /\ last.saves = 1 /\ last.outcome = "ok"
    /\ Len(users.users) >= 1
    /\ file = FileJson(users)


C14_FileStep ==
    (ValidFile(file) /\ file.val.users # <<>>) =>
        /\ file' = file \/ file' = FileJson(users')
        /\ load_users(file') # EmptyRegistry

\* C14: once subscribers have been persisted, every step leaves in the file
\* the whole previous registry or the whole new one, so that loading it
\* never gives an empty registry.
C14_AtomicPersistence == [][C14_FileStep]_vars

(***************************************************************************)
(* Further properties of the fan-out senders, checked under SpecDispatch.  *)
(* A sender returns None ("None" in last.ret); what it records of a failed *)
(* delivery is the logger.error call of its except clause.                 *)
(***************************************************************************)
\* the positions in the recipient list at which a call raised
FailedRecipients == {outbox[p].k : p \in {q \in 1..Len(outbox) : C3_Raised(outbox[q])}}

\* C15: a fan-out to N recipients in which exactly recipient k fails returns
\* a report with success_count N-1 and the one failure entry of k.
C15_DeliveryReport ==
    (last.op \in FanOuts /\ Len(last.recipients) >= 2
        /\ Cardinality(FailedRecipients) = 1) =>
        /\ last.ret \notin {"None", "raise"}
        /\ last.ret.success_count = Len(last.recipients) - 1
        /\ \A k \in FailedRecipients :
              last.ret.failures = <<last.recipients[k].chat_id>>

\* the attachment was found missing: os.path.exists gave False (lines 428,
\* 463) or open raised (line 394)
MissingAttachment(c) == ~c.ok /\ c.call \in {"exists", "open"}

\* C16: when the attachment is missing at recipient k, a failure is recorded
\* for k and the recipients after k are still served.
C16_MissingAttachment ==
    last.op \in FanOuts =>
        \A p \in 1..Len(outbox) :
            MissingAttachment(outbox[p]) =>
                /\ \E q \in (p + 1)..Len(outbox) :
                      outbox[q].k = outbox[p].k /\ outbox[q].call = "log_error"
                /\ \A k \in (outbox[p].k + 1)..Len(last.recipients) :
                      \E q \in (p + 1)..Len(outbox) : C3_Attempt(outbox[q], k)

(***************************************************************************)
(* Further properties of the scheduling loop, checked under SpecLoop.      *)
(***************************************************************************)
\* C17: when KeyboardInterrupt arrives, the notification being dispatched
\* still goes to every one of its recipients, and run_monitoring returns:
\* the process does not end with the exception or through main's retries.
C17_CleanStop ==
    /\ (last.op = "run_check_cycle" /\ last.arg = "interrupt") =>
          \A k \in 1..Len(last.recipients) :
              \E q \in 1..Len(outbox) :
                  /\ outbox[q].k = k
                  /\ outbox[q].to = last.recipients[k].chat_id
                  /\ outbox[q].call = "send_message"
    /\ pc \notin {"unwind_interrupt", "exit_interrupt"}
    /\ (last.op = "interrupt") => pc \notin {"cooldown", "main_except", "exit_1"}


\* minutes since midnight of a time of day <<h, m>> and of an 'HH:MM' string
MinutesOf(t) == t[1] * 60 + t[2]
MinutesOfStr(s) ==
    ((Ord(s[1]) - Ord("0")) * 10 + (Ord(s[2]) - Ord("0"))) * 60
        + (Ord(s[4]) - Ord("0")) * 10 + (Ord(s[5]) - Ord("0"))

\* the time of day of the clock is at or after the threshold
AtOrAfterThreshold == MinutesOf(TimesOfDay[clock.tod]) >= MinutesOfStr(EOD_REPORT_TIME)

C18_CheckStep ==
    (pc = "eod_check" /\ pc' = "sleep") =>
        LET due == AtOrAfterThreshold /\ hist.eod_count[clock.date] = 0
        IN  /\ last'.op = "eod_report" <=> due
            /\ last'.op = "eod_skip" <=> ~due
            /\ hist'.eod_count[clock.date] =
                  hist.eod_count[clock.date] + (IF due THEN 1 ELSE 0)
            /\ ~AtOrAfterThreshold => outbox' = <<>>

\* C18: the end-of-day check of an iteration triggers the digest exactly
\* when the time of day it samples is at or after the threshold and no
\* digest was triggered for the sampled date in this run of the loop: never
\* before the threshold, always at the first sample at or after it.
C18_DigestTriggerCondition == [][C18_CheckStep]_vars

\* C18 witness: the digest of the first date was triggered and the first
\* sample of the second date at or after the threshold, at 16:00, has just
\* triggered the digest of the second date
C18_Witness ==
    /\ last.op = "eod_report"
    /\ clock.date = 2 /\ TimesOfDay[clock.tod] = <<16, 0>>
    /\ hist.eod_count[1] = 1 /\ hist.eod_count[2] = 1
    /\ hist.samples[2] = 1


C19_MainStep ==
    \* an invocation of run_monitoring is the first to the fifth
    /\ (pc = "main" /\ pc' = "start_polling") => retry_count + 1 <= 5
    \* the k-th invocation has ended with an exception
    /\ pc = "main_except" =>
          /\ retry_count' = retry_count + 1
          /\ IF retry_count' <= 4
             THEN pc' = "main" /\ last'.secs = 60 * retry_count'
             ELSE pc' = "exit_1" /\ last'.secs = 0
    \* an invocation has returned: nothing follows
    /\ pc = "exit_0" => pc' = "exit_0"
    /\ pc' = "exit_1" => pc \in {"main_except", "exit_1"}

C20_RestartStep ==
    \* a call of run_monitoring, the one of line 557 included, starts with
    \* the watermark unset
    /\ (pc = "start_polling" /\ pc' = "check_cycle") => last_eod_report_date' = 0
    \* after a restart the first sample at or after the threshold triggers
    \* the digest, whatever was triggered for the date before
    /\ (pc = "eod_check" /\ pc' = "sleep" /\ frames > 1 /\ AtOrAfterThreshold
            /\ hist.samples[clock.date] = 0) =>
          /\ last'.op = "eod_report"
          /\ last_eod_report_date' = clock.date
          /\ hist'.eod_count[clock.date] = 1

\* C20: the restart of the loop after a fault starts with the watermark
\* unset, so the first sample at or after the threshold after the restart
\* triggers the digest even when the digest of that date was triggered
\* before the fault.
C20_WatermarkResetOnRestart == [][C20_RestartStep]_vars

\* C20 witness: in a restarted loop the digest has just been triggered for
\* a date for which it had been triggered before the fault
C20_Witness ==
    /\ frames > 1
    /\ last.op = "eod_report"
    /\ hist.eod_count[clock.date] = 1
    /\ hist.prior = clock.date


\* C21: a trigger of the digest sets the watermark to the sampled date
\* whatever came of it (the report producer raised or returned nothing, the
\* report was not rendered, no send succeeded); and on a date whose digest,
\* triggered in this run of the loop, reached no one, the watermark stays at
\* that date, the digest is not triggered again and nobody is sent one.
C21_TriggerStep ==
    /\ (pc = "eod_check" /\ last'.op = "eod_report") =>
           /\ last_eod_report_date' = clock.date
           /\ hist'.eod_count[clock.date] = hist.eod_count[clock.date] + 1
           /\ (~Reached(outbox')) => hist'.failed = clock.date
    /\ (pc = "eod_check" /\ hist.failed = clock.date) =>
           /\ last'.op # "eod_report"
           /\ ~Reached(outbox')
           /\ last_eod_report_date' = last_eod_report_date

C21_WatermarkAdvancesOnEveryAttempt ==
    /\ [][C21_TriggerStep]_vars
    /\ [](hist.failed = clock.date =>
             last_eod_report_date = clock.date /\ hist.eod_count[clock.date] = 1)

\* C21 witness: a sample at or after the threshold on a date whose digest
\* reached no one earlier in this run of the loop, skipped
C21_Witness ==
    /\ last.op = "eod_skip"
    /\ hist.failed = clock.date
    /\ hist.samples[clock.date] = 2
    /\ StrGE(Strftime(TimesOfDay[clock.tod]), EOD_REPORT_TIME)
    /\ last_eod_report_date = clock.date


\* C22: start_polling and stop_polling come in matched pairs: start_polling
\* is not called while the polling started by an earlier call of
\* run_monitoring is still on (at most one start is unmatched at any time),
\* and when the program is outside run_monitoring every start_polling has
\* had its one stop_polling.
C22_MatchedPolling ==
    /\ hist.polling \in {0, 1}
    /\ (last.op = "start_polling" /\ last.arg = "") => hist.polling = 1
    /\ pc \in {"main", "main_except", "exit_0", "exit_1", "exit_interrupt"} =>
           hist.polling = 0

=============================================================================
